---- MODULE Spec2Model ----
(***************************************************************************)
(* canvas-cli: the `todo` command (run_todo), its concurrent loaders       *)
(* (load_canvas, load_gradescope), the progress tracker (Progress), the    *)
(* HTTP fetch wrapper (fetch, decode_json) and the should_show predicate.  *)
(*                                                                         *)
(* Time is counted in ticks; TicksPerDay ticks make one day.  An           *)
(* Option<T> is a tuple: <<>> is None and <<x>> is Some(x).  A course name *)
(* is the rank of the name in string order.                                *)
(***************************************************************************)
EXTENDS Integers, Sequences, FiniteSets, TLC

VARIABLES
    \* ---- run_todo and its loaders
    config,         \* the Config read by main
    show_all,       \* Opt::Todo { show_all }
    pc,             \* position of run_todo
    cst,            \* position of load_canvas
    gst,            \* position of load_gradescope
    ccourses,       \* load_canvas: canvas_courses after retain and sort
    gcourses,       \* load_gradescope: gradescope_courses
    cdone,          \* load_canvas: per-course results already returned
    gdone,          \* load_gradescope: per-course results already returned
    wraps,          \* every Progress::wrap call of the run, by wrap id
    messages,       \* Progress.messages: the arena, slot -> label
    nextSlot,       \* the arena's next fresh slot
    barLen,         \* Progress.bar: the length set by update
    barMsg,         \* Progress.bar: the labels set by update
    finished,       \* number of Progress::finish calls
    all_assignments,\* run_todo: the merged list, then the rest of the loop
    evaluated,      \* assignments handed to should_show
    shown,          \* assignments that passed the test of line 316
    out,            \* lines printed on standard output, in order
    clock,          \* the wall clock (Local::now())
    now,            \* run_todo: `now`
    next_assignment_due_at,
    next_submission_due_at,
    locked_count,
    locked_hidden,  \* the assignments the loop counted in locked_count
    color_id,
    courses_color,
    result,         \* what run_todo returned
    \* ---- one call of fetch
    f_pc, f_url, f_script, f_script0, f_resp, f_gets, f_decodes, f_result,
    \* ---- one call of should_show
    s_pc, s_config, s_asg, s_t1, s_t2, s_out,
    \* ---- Progress::wrap calls polled by one task, statement by statement
    w_pc,           \* the position of every wrap call
    w_running,      \* the wrap call the task is polling, if any
    w_ready,        \* the wrap calls whose wrapped future has its output
    w_lock,         \* Progress.messages: the holder of the Mutex, if any
    w_messages,     \* Progress.messages: the arena, slot -> label
    w_nextSlot,     \* the arena's next fresh slot
    w_slot,         \* wrap: `i`, the index insert returned
    w_local,        \* update: `messages`, the labels collected under the lock
    w_barLen        \* Progress.bar: the length set by update

runVars == <<config, show_all, pc, cst, gst, ccourses, gcourses, cdone, gdone,
             wraps, messages, nextSlot, barLen, barMsg, finished,
             all_assignments, evaluated, shown, out, clock, now,
             next_assignment_due_at, next_submission_due_at, locked_count,
             locked_hidden, color_id, courses_color, result>>
fetchVars == <<f_pc, f_url, f_script, f_script0, f_resp, f_gets, f_decodes, f_result>>
showVars == <<s_pc, s_config, s_asg, s_t1, s_t2, s_out>>
wrapVars == <<w_pc, w_running, w_ready, w_lock, w_messages, w_nextSlot, w_slot,
              w_local, w_barLen>>
vars == <<runVars, fetchVars, showVars, wrapVars>>

-----------------------------------------------------------------------------
(* Bounds of the model *)

\* ticks in a day: what Duration::num_days divides by
TicksPerDay == 2
\* the wall clock when the run starts
StartTime == 4
\* the latest due timestamp of the should_show inputs
MaxTime == 6
\* how far the wall clock may advance during the print pass
MaxDrift == 1
\* the longest script of server behaviours offered to one fetch
MaxAttempts == 3
\* the most wrap calls polled together by the task
MaxWraps == 3

-----------------------------------------------------------------------------
(* Option<T> *)

None == <<>>
Some(x) == <<x>>
IsSome(o) == o # <<>>
Unwrap(o) == o[1]

Min2(a, b) == IF a <= b THEN a ELSE b
Max2(a, b) == IF a >= b THEN a ELSE b

\* chrono::Duration::num_days: the whole days of a duration, truncated toward zero
num_days(d) == IF d >= 0 THEN d \div TicksPerDay ELSE -((-d) \div TicksPerDay)

-----------------------------------------------------------------------------
(* Results and errors (color_eyre::Result) *)

Ok(v) == [ok |-> TRUE, value |-> v]
Err(e) == [ok |-> FALSE, err |-> e]

\* the eyre reports built in fetch: the outermost message, the path it is
\* tagged with (if any) and whether the credentials suggestion is attached
ErrFetch(url) == [msg |-> "Unable to fetch", url |-> Some(url), suggestion |-> FALSE]
ErrStatus == [msg |-> "Server returned error", url |-> None, suggestion |-> TRUE]
ErrRead == [msg |-> "Failed to read data from server", url |-> None, suggestion |-> FALSE]
ErrParse(url) == [msg |-> "Unable to parse", url |-> Some(url), suggestion |-> FALSE]
\* the serde_path_to_error report decode_json returns, before fetch tags it
ErrSerde == [msg |-> "invalid type", url |-> None, suggestion |-> FALSE]

-----------------------------------------------------------------------------
(* One GET and what the server does with it *)

\* a request path: its format string and the course id formatted into it
\* (0 when the path takes none)
Url(path, id) == [path |-> path, id |-> id]

\* a server behaviour for one GET: does the transport deliver a response,
\* with which status, can the body be read, and the body
Behaviour(send, status, read, body) ==
    [send |-> send, status |-> status, read |-> read, body |-> body]
\* a body: bytes that decode to `v`, or bytes that do not decode
GoodBody(v) == [valid |-> TRUE, value |-> v]
BadBody == [valid |-> FALSE, value |-> <<>>]

TransportFail == Behaviour(FALSE, 0, FALSE, BadBody)
StatusFail(code) == Behaviour(TRUE, code, FALSE, BadBody)
ReadFail == Behaviour(TRUE, 200, FALSE, BadBody)
Malformed == Behaviour(TRUE, 200, TRUE, BadBody)
Reply(v) == Behaviour(TRUE, 200, TRUE, GoodBody(v))

\* reqwest::Response::error_for_status: client and server errors
is_error_status(code) == code >= 400 /\ code <= 599

\* decode_json: serde_path_to_error::deserialize of the bytes
decode_json(body) == IF body.valid THEN Ok(body.value) ELSE Err(ErrSerde)

\* fetch reporting bytes that do not decode as a failed fetch of the path
fetch_decode_as_transport(url, resp) ==
    IF ~resp.send THEN Err(ErrFetch(url))
    ELSE IF is_error_status(resp.status) THEN Err(ErrStatus)
    ELSE IF ~resp.read THEN Err(ErrRead)
    ELSE LET d == decode_json(resp.body)
         IN  IF d.ok THEN d ELSE Err(ErrFetch(url))

\* the Result<T> returned by fetch for the behaviour of its GET
fetch(url, resp) ==
    IF ~resp.send THEN Err(ErrFetch(url))
    ELSE IF is_error_status(resp.status) THEN Err(ErrStatus)
    ELSE IF ~resp.read THEN Err(ErrRead)
    ELSE LET d == decode_json(resp.body)
         IN  IF d.ok THEN d ELSE Err(ErrParse(url))

\* gradescope::fetch: the text of the page, never decoded
gradescope_fetch(path, resp) ==
    IF ~resp.send THEN Err(ErrFetch(path))
    ELSE IF is_error_status(resp.status) THEN Err(ErrStatus)
    ELSE IF ~resp.read THEN Err(ErrRead)
    ELSE Ok(resp.body)

\* Html::parse_document and the selectors: the rows a page holds; a page that
\* is no document of the expected kind holds none
rows(body) == IF body.valid THEN body.value ELSE <<>>

\* gradescope::load_courses
load_courses(resp) ==
    LET r == gradescope_fetch(Url("/", 0), resp)
    IN  IF r.ok THEN Ok(rows(r.value)) ELSE r

\* gradescope::load_assignments_for_course
load_assignments_for_course(id, resp) ==
    LET r == gradescope_fetch(Url("/courses/{id}", id), resp)
    IN  IF r.ok THEN Ok(rows(r.value)) ELSE r

-----------------------------------------------------------------------------
(* Records: Config, courses, assignments *)

\* config::Exclusion and config::Inclusion
ByClassId(id) == [kind |-> "ByClassId", id |-> id]
ByAssignmentId(id) == [kind |-> "ByAssignmentId", id |-> id]

\* api::CanvasCourse and gradescope::GradescopeCourse: the fields run_todo reads
Course(id, name) == [id |-> id, name |-> name]

\* api::Submission: submitted_at and the number of discussion_entries
Submission(submitted_at, entries) ==
    [submitted_at |-> submitted_at, discussion_entries |-> entries]

\* api::CanvasAssignment: the fields run_todo and should_show read
CanvasAssignment(id, due, points, sub, peer, locked, types) ==
    [id |-> id, due_at |-> due, points_possible |-> points, submission |-> sub,
     peer_reviews |-> peer, locked_for_user |-> locked, submission_types |-> types]

\* gradescope::GradescopeAssignment
GradescopeAssignment(due, submitted) == [due_at |-> due, submitted |-> submitted]

\* enum Assignment { Canvas(course, a), Gradescope(course, a) }
Canvas(c, a) == [src |-> "Canvas", course |-> c, a |-> a]
Gradescope(c, a) == [src |-> "Gradescope", course |-> c, a |-> a]

\* Assignment::assignment_id
assignment_id(x) == IF x.src = "Canvas" THEN Some(x.a.id) ELSE None
\* Assignment::due_at
due_at(x) == x.a.due_at

-----------------------------------------------------------------------------
(* should_show and process_submission *)

\* the submission types process_submission does not count as online
OfflineTypes == {"none", "on_paper"}

\* process_submission: its second component, online_submission
process_submission(a) ==
    \E i \in 1..Len(a.submission_types) : a.submission_types[i] \notin OfflineTypes

\* should_show, lines 130-134: overdue by more than the configured days at t
overdue_hidden(cfg, due, t) ==
    IsSome(cfg.hide_overdue_after_days)
    /\ num_days(t - due) > Unwrap(cfg.hide_overdue_after_days)

\* the due-date rules with the Gradescope arm placed under the flag of the
\* Canvas arm
due_rules_gradescope_under_flag(cfg, x, t1, t2) ==
    IF ~IsSome(due_at(x)) THEN TRUE
    ELSE LET due == Unwrap(due_at(x))
         IN  IF overdue_hidden(cfg, due, t1) THEN FALSE
             ELSE IF x.src = "Canvas"
                  THEN ~(cfg.hide_overdue_without_submission
                         /\ ~process_submission(x.a) /\ t2 > due)
                  ELSE ~(cfg.hide_overdue_without_submission /\ x.a.submitted)

\* should_show, lines 129-150: the rules that read the due timestamp;
\* TRUE when none of them returns false.  t1 and t2 are the readings of
\* Local::now() at lines 131 and 139
due_rules(cfg, x, t1, t2) ==
    IF ~IsSome(due_at(x)) THEN TRUE
    ELSE LET due == Unwrap(due_at(x))
         IN  IF overdue_hidden(cfg, due, t1) THEN FALSE
             ELSE IF x.src = "Canvas"
                  THEN ~(cfg.hide_overdue_without_submission
                         /\ ~process_submission(x.a) /\ t2 > due)
                  ELSE ~x.a.submitted

\* the submission rule keeping every peer-reviewed assignment, whatever the
\* number of its discussion entries
submission_rule_any_peer_review(x) ==
    IF x.src = "Canvas" /\ IsSome(x.a.submission)
    THEN LET sub == Unwrap(x.a.submission)
         IN  ~IsSome(sub.submitted_at) \/ x.a.peer_reviews
    ELSE TRUE

\* should_show, lines 152-160: a Canvas assignment whose submission is final
submission_rule(x) ==
    IF x.src = "Canvas" /\ IsSome(x.a.submission)
    THEN LET sub == Unwrap(x.a.submission)
         IN  ~IsSome(sub.submitted_at)
             \/ (x.a.peer_reviews /\ sub.discussion_entries < 2)
    ELSE TRUE

\* should_show, lines 120-127: the inclusion list names the assignment
included(cfg, x) ==
    IsSome(assignment_id(x))
    /\ ByAssignmentId(Unwrap(assignment_id(x))) \in cfg.include

\* should_show consulting the inclusion list after the due-date rules
should_show_inclusion_last(cfg, x, t1, t2) ==
    IF ~due_rules(cfg, x, t1, t2) THEN FALSE
    ELSE IF included(cfg, x) THEN TRUE
    ELSE submission_rule(x)

should_show(cfg, x, t1, t2) ==
    IF included(cfg, x) THEN TRUE
    ELSE IF ~due_rules(cfg, x, t1, t2) THEN FALSE
    ELSE submission_rule(x)

\* does should_show reach the Local::now() of line 131, and that of line 139
reads_now_131(cfg, x) ==
    ~included(cfg, x) /\ IsSome(due_at(x)) /\ IsSome(cfg.hide_overdue_after_days)
reads_now_139(cfg, x, t1) ==
    /\ ~included(cfg, x) /\ IsSome(due_at(x))
    /\ ~overdue_hidden(cfg, Unwrap(due_at(x)), t1)
    /\ x.src = "Canvas" /\ cfg.hide_overdue_without_submission
    /\ ~process_submission(x.a)

-----------------------------------------------------------------------------
(* Vec::retain and slice::sort_by_key *)

\* slice::sort_by_key, a stable sort: keys[i] is the key of s[i].  An
\* element's place is one more than the number of elements that sort before
\* it: those with a smaller key, and those with an equal key that stand
\* before it in s
SortByKey(s, keys) ==
    LET n == Len(s)
        before(j, i) == keys[j] < keys[i] \/ (keys[j] = keys[i] /\ j < i)
        place(i) == Cardinality({j \in 1..n : before(j, i)}) + 1
    IN  [r \in 1..n |-> s[CHOOSE i \in 1..n : place(i) = r]]

\* Option<DateTime>'s order as a number: None sorts before every Some
option_rank(o) == IF IsSome(o) THEN Unwrap(o) + 1 ELSE 0

\* the sort key without its Reverse
due_key_ascending(x) == option_rank(due_at(x))

\* run_todo, line 294: the key Reverse(x.due_at())
due_key(x) == -option_rank(due_at(x))

\* load_canvas, line 453: the key x.name
name_key(x) == x.name

\* load_canvas, lines 447-452: the courses no ByClassId exclusion names
canvas_course_kept(cfg, c) == ByClassId(c.id) \notin cfg.exclude

\* load_gradescope, lines 484-490: every course of the list is loaded
gradescope_course_kept(cfg, c) == TRUE

\* an exclusion that the inclusion list overrides
assignment_kept_unless_included(cfg, x) ==
    \/ ~(IsSome(assignment_id(x))
         /\ ByAssignmentId(Unwrap(assignment_id(x))) \in cfg.exclude)
    \/ included(cfg, x)

\* run_todo, lines 287-292: the assignments no ByAssignmentId exclusion names
assignment_kept(cfg, x) ==
    ~(IsSome(assignment_id(x))
      /\ ByAssignmentId(Unwrap(assignment_id(x))) \in cfg.exclude)

\* run_todo, lines 273-283: the Gradescope pairs, then the Canvas pairs, each
\* course's assignments in the order fetched
RECURSIVE Flatten(_, _, _)
Flatten(src, courses, lists) ==
    IF courses = <<>> THEN <<>>
    ELSE [i \in 1..Len(Head(lists)) |->
             [src |-> src, course |-> Head(courses), a |-> Head(lists)[i]]]
         \o Flatten(src, Tail(courses), Tail(lists))

\* run_todo, lines 273-294: merge, retain, sort
merged(cfg, gc, gl, cc, cl) ==
    LET all == Flatten("Gradescope", gc, gl) \o Flatten("Canvas", cc, cl)
        keep(x) == assignment_kept(cfg, x)
        kept == SelectSeq(all, keep)
    IN  SortByKey(kept, [i \in 1..Len(kept) |-> due_key(kept[i])])

-----------------------------------------------------------------------------
(* Progress: the registry and the bar *)

\* Arena::insert under the lock
arena_insert(msgs, slot, label) == msgs @@ (slot :> label)
\* a wrap that returns without removing its entry
arena_remove_forgotten(msgs, slot) == msgs
\* Arena::remove under the lock
arena_remove(msgs, slot) == [s \in DOMAIN msgs \ {slot} |-> msgs[s]]
\* Progress::update: the length handed to bar.set_length
update_length(msgs) == Cardinality(DOMAIN msgs)
\* Progress::update: the labels handed to bar.set_message
update_message(msgs) == {msgs[s] : s \in DOMAIN msgs}

\* the label of a wrap call: its text and the course name formatted into it
Label(text, name) == [text |-> text, name |-> name]

\* Progress::wrap, lines 43-44: insert, update, then the future is awaited
WrapBegin(w, label) ==
    /\ messages' = arena_insert(messages, nextSlot, label)
    /\ nextSlot' = nextSlot + 1
    /\ barLen' = update_length(messages')
    /\ barMsg' = update_message(messages')
    /\ wraps' = wraps @@ (w :> [state |-> "waiting", slot |-> nextSlot,
                                err |-> None])

\* Progress::wrap, lines 46-48: the future has returned; remove, update, and
\* hand its output r on.  An Err is what try_join_all and try_join! return at
\* once, dropping every wrap still waiting
WrapEnd(w, r) ==
    /\ messages' = arena_remove(messages, wraps[w].slot)
    /\ barLen' = update_length(messages')
    /\ barMsg' = update_message(messages')
    /\ wraps' = [v \in DOMAIN wraps |->
                   IF v = w
                   THEN [wraps[v] EXCEPT !.state = "done",
                                         !.err = IF r.ok THEN None ELSE Some(r.err)]
                   ELSE IF ~r.ok /\ wraps[v].state = "waiting"
                        THEN [wraps[v] EXCEPT !.state = "dropped"]
                        ELSE wraps[v]]
    /\ UNCHANGED nextSlot

progressVars == <<wraps, messages, nextSlot, barLen, barMsg>>
printVars == <<all_assignments, evaluated, shown, out, clock, now,
               next_assignment_due_at, next_submission_due_at, locked_count,
               locked_hidden, color_id, courses_color>>

-----------------------------------------------------------------------------
(* The configurations and the servers' answers the run is checked on *)

Configs ==
    [gradescope_cookie : {None, Some("cookie")},
     hide_overdue_after_days : {None, Some(0)},
     hide_overdue_without_submission : BOOLEAN,
     exclude : SUBSET {ByClassId(100), ByAssignmentId(1)},
     include : SUBSET {ByAssignmentId(1)},
     hide_locked : BOOLEAN]

\* GET /api/v1/courses: the course lists the Canvas server may answer with
CanvasCourseLists ==
    { <<Course(100, 2), Course(101, 1)>>, <<Course(100, 2)>> }

\* the course boxes the Gradescope dashboard may hold; course 100 is also
\* the id of a Canvas course
GradescopeCourseLists ==
    { <<Course(100, 3)>>, <<Course(100, 3), Course(200, 1)>> }

Unsubmitted == Some(Submission(None, 0))

\* GET /api/v1/courses/{id}/assignments: the lists a course may answer with
CanvasAssignmentLists ==
    { <<>>,
      \* overdue by less than a day and open; due later, locked, on paper
      << CanvasAssignment(1, Some(3), Some(10), Unsubmitted, FALSE, FALSE,
                          <<"online_upload">>),
         CanvasAssignment(2, Some(6), Some(10), Unsubmitted, FALSE, TRUE,
                          <<"on_paper">>) >>,
      \* no due timestamp; due as the run starts, submitted, peer reviews open
      << CanvasAssignment(1, None, Some(10), Unsubmitted, FALSE, FALSE,
                          <<"online_quiz">>),
         CanvasAssignment(2, Some(4), Some(10), Some(Submission(Some(2), 0)),
                          TRUE, FALSE, <<"discussion_topic">>) >>,
      \* overdue by two days, locked, no points and no submission record; due
      \* later, open
      << CanvasAssignment(2, Some(0), None, None, FALSE, TRUE, <<"none">>),
         CanvasAssignment(1, Some(5), Some(10), Unsubmitted, FALSE, FALSE,
                          <<"online_text_entry">>) >> }

\* the assignment tables a Gradescope course page may hold
GradescopeAssignmentLists ==
    { <<>>,
      << GradescopeAssignment(Some(2), TRUE), GradescopeAssignment(Some(6), FALSE) >>,
      << GradescopeAssignment(None, FALSE), GradescopeAssignment(Some(3), FALSE) >> }

\* what a server may do with one GET whose good answers are `bodies`
Responses(bodies) ==
    {TransportFail, StatusFail(401), ReadFail, Malformed}
        \cup {Reply(v) : v \in bodies}

CourseListUrl == Url("/api/v1/courses?enrollment_state=active&per_page=10000", 0)
AssignmentsUrl(id) ==
    Url("/api/v1/courses/{}/assignments?per_page=10000&include=submission", id)

-----------------------------------------------------------------------------
(* run_todo: the concurrent loaders *)

Running == [kind |-> "Running"]
Returned(r) == [kind |-> "Returned", r |-> r]
Panicked == [kind |-> "Panicked"]

\* no loader is in the middle of starting its per-course wraps: try_join_all
\* starts them all in one poll, which nothing else interleaves with
Quiet == cst # "spawn" /\ gst # "spawn"

\* the position of `src`'s wrap number i (0: the course list)
W(src, i) == <<src, i>>
Begun(src) == Cardinality({w \in DOMAIN wraps : w[1] = src /\ w[2] > 0})

\* a loader's Err that is not propagated: the run goes on
Fail_swallowed(e) == UNCHANGED <<pc, result, finished, printVars>>

\* the `?` of line 271: the first Err of a loader is what run_todo returns,
\* before progress.finish() and before anything is printed
Fail(e) ==
    /\ pc' = "failed"
    /\ result' = Returned(Err(e))
    /\ UNCHANGED <<finished, printVars>>

RunInit ==
    /\ config \in Configs
    /\ show_all \in BOOLEAN
    /\ pc = "start"
    /\ cst = "idle" /\ gst = "idle"
    /\ ccourses = <<>> /\ gcourses = <<>>
    /\ cdone = <<>> /\ gdone = <<>>
    /\ wraps = <<>> /\ messages = <<>> /\ nextSlot = 0
    /\ barLen = 0 /\ barMsg = {}
    /\ finished = 0
    /\ all_assignments = <<>> /\ evaluated = {} /\ shown = {} /\ out = <<>>
    /\ clock = StartTime /\ now = StartTime
    /\ next_assignment_due_at = None /\ next_submission_due_at = None
    /\ locked_count = 0 /\ locked_hidden = <<>> /\ color_id = 0 /\ courses_color = <<>>
    /\ result = Running

\* run_todo, lines 266-269, and load_canvas, lines 438-446: the first poll
\* reaches the course-list wrap
StartCanvas ==
    /\ pc = "start"
    /\ WrapBegin(W("Canvas", 0), Label("Loading course list", 0))
    /\ pc' = "start_gradescope"
    /\ cst' = "list"
    /\ UNCHANGED <<config, show_all, gst, ccourses, gcourses, cdone, gdone,
                   finished, printVars, result>>

\* run_todo, line 270, and load_gradescope, lines 480-488: without a cookie the
\* loader returns no course at once
StartGradescope ==
    /\ pc = "start_gradescope"
    /\ pc' = "join"
    /\ IF IsSome(config.gradescope_cookie)
       THEN /\ WrapBegin(W("Gradescope", 0), Label("Loading Gradescope courses", 0))
            /\ gst' = "list"
       ELSE /\ gst' = "done"
            /\ UNCHANGED progressVars
    /\ UNCHANGED <<config, show_all, cst, ccourses, gcourses, cdone, gdone,
                   finished, printVars, result>>

\* load_canvas, lines 438-454: the course list arrives; retain, sort
CanvasListDone ==
    /\ pc = "join" /\ cst = "list" /\ Quiet
    /\ \E resp \in Responses(CanvasCourseLists) :
         LET r == fetch(CourseListUrl, resp)
             keep(c) == canvas_course_kept(config, c)
             kept == IF r.ok THEN SelectSeq(r.value, keep) ELSE <<>>
             courses == SortByKey(kept, [i \in 1..Len(kept) |-> name_key(kept[i])])
         IN  /\ WrapEnd(W("Canvas", 0), r)
             /\ IF r.ok
                THEN /\ ccourses' = courses
                     /\ cdone' = [i \in 1..Len(courses) |-> None]
                     /\ cst' = IF courses = <<>> THEN "done" ELSE "spawn"
                     /\ UNCHANGED <<pc, result, finished, printVars>>
                ELSE /\ Fail(r.err)
                     /\ UNCHANGED <<cst, ccourses, cdone>>
    /\ UNCHANGED <<config, show_all, gst, gcourses, gdone>>

\* load_canvas, lines 454-468: try_join_all starts the next course's wrap
CanvasBegin ==
    /\ pc = "join" /\ cst = "spawn"
    /\ LET i == Begun("Canvas") + 1
       IN  /\ WrapBegin(W("Canvas", i),
                        Label("Loading assignments for {}", ccourses[i].name))
           /\ cst' = IF i = Len(ccourses) THEN "courses" ELSE "spawn"
    /\ UNCHANGED <<config, show_all, pc, gst, ccourses, gcourses, cdone, gdone,
                   finished, printVars, result>>

\* load_canvas, lines 457-473: one course's assignments arrive
CanvasCourseDone ==
    /\ pc = "join" /\ cst = "courses" /\ Quiet
    /\ \E i \in 1..Len(ccourses) :
         /\ wraps[W("Canvas", i)].state = "waiting"
         /\ \E resp \in Responses(CanvasAssignmentLists) :
              LET r == fetch(AssignmentsUrl(ccourses[i].id), resp)
              IN  /\ WrapEnd(W("Canvas", i), r)
                  /\ IF r.ok
                     THEN /\ cdone' = [cdone EXCEPT ![i] = Some(r.value)]
                          /\ cst' = IF \A j \in 1..Len(ccourses) : IsSome(cdone'[j])
                                    THEN "done" ELSE "courses"
                          /\ UNCHANGED <<pc, result, finished, printVars>>
                     ELSE /\ Fail(r.err)
                          /\ UNCHANGED <<cst, cdone>>
    /\ UNCHANGED <<config, show_all, gst, ccourses, gcourses, gdone>>

\* load_gradescope, lines 484-490: the dashboard arrives
GradescopeListDone ==
    /\ pc = "join" /\ gst = "list" /\ Quiet
    /\ \E resp \in Responses(GradescopeCourseLists) :
         LET r == load_courses(resp)
             keep(c) == gradescope_course_kept(config, c)
             courses == IF r.ok THEN SelectSeq(r.value, keep) ELSE <<>>
         IN  /\ WrapEnd(W("Gradescope", 0), r)
             /\ IF r.ok
                THEN /\ gcourses' = courses
                     /\ gdone' = [i \in 1..Len(courses) |-> None]
                     /\ gst' = IF courses = <<>> THEN "done" ELSE "spawn"
                     /\ UNCHANGED <<pc, result, finished, printVars>>
                ELSE /\ Fail(r.err)
                     /\ UNCHANGED <<gst, gcourses, gdone>>
    /\ UNCHANGED <<config, show_all, cst, ccourses, cdone>>

\* load_gradescope, lines 490-494: try_join_all starts the next course's wrap
GradescopeBegin ==
    /\ pc = "join" /\ gst = "spawn"
    /\ LET i == Begun("Gradescope") + 1
       IN  /\ WrapBegin(W("Gradescope", i),
                        Label("Loading assignments for {}", gcourses[i].name))
           /\ gst' = IF i = Len(gcourses) THEN "courses" ELSE "spawn"
    /\ UNCHANGED <<config, show_all, pc, cst, ccourses, gcourses, cdone, gdone,
                   finished, printVars, result>>

\* load_gradescope, lines 492-502: one course's assignment table arrives
GradescopeCourseDone ==
    /\ pc = "join" /\ gst = "courses" /\ Quiet
    /\ \E i \in 1..Len(gcourses) :
         /\ wraps[W("Gradescope", i)].state = "waiting"
         /\ \E resp \in Responses(GradescopeAssignmentLists) :
              LET r == load_assignments_for_course(gcourses[i].id, resp)
              IN  /\ WrapEnd(W("Gradescope", i), r)
                  /\ IF r.ok
                     THEN /\ gdone' = [gdone EXCEPT ![i] = Some(r.value)]
                          /\ gst' = IF \A j \in 1..Len(gcourses) : IsSome(gdone'[j])
                                    THEN "done" ELSE "courses"
                          /\ UNCHANGED <<pc, result, finished, printVars>>
                     ELSE /\ Fail(r.err)
                          /\ UNCHANGED <<gst, gdone>>
    /\ UNCHANGED <<config, show_all, cst, ccourses, gcourses, cdone>>

-----------------------------------------------------------------------------
(* run_todo: merge, the print pass and the summary *)

\* colorize: the palette has five colors, taken cyclically
PaletteSize == 5
colorize(i, s) == [color |-> i % PaletteSize, name |-> s]

\* get_course_color: the memo is keyed by the course id alone; a hit returns
\* the string stored at the first encounter
get_course_color(memo, cid, id, name) ==
    IF id \in DOMAIN memo
    THEN [label |-> memo[id], memo |-> memo, color_id |-> cid]
    ELSE [label |-> colorize(cid, name),
          memo |-> memo @@ (id :> colorize(cid, name)),
          color_id |-> cid + 1]

\* format_duration, line 89: assert!(b > a)
format_duration_ok(a, b) == b > a
\* format_duration_full: format_duration(min(a, b), max(a, b))
format_duration_full_ok(a, b) == format_duration_ok(Min2(a, b), Max2(a, b))

\* the lines run_todo prints
AssignmentLine(x, label) == [kind |-> "assignment", asg |-> x, label |-> label]
LockedLine(n) == [kind |-> "locked", n |-> n]
NextAssignmentLine(t) == [kind |-> "next_assignment", due |-> t]
NextSubmissionLine(t) == [kind |-> "next_submission", due |-> t]

\* run_todo, lines 273-312: both loaders have returned Ok; the lists are
\* merged, progress.finish() is called, the excluded assignments are dropped
\* and the rest is sorted
Merge ==
    /\ pc = "join" /\ cst = "done" /\ gst = "done"
    /\ all_assignments' =
         merged(config,
                gcourses, [i \in 1..Len(gcourses) |-> Unwrap(gdone[i])],
                ccourses, [i \in 1..Len(ccourses) |-> Unwrap(cdone[i])])
    /\ finished' = finished + 1
    /\ now' = clock
    /\ pc' = "print"
    /\ UNCHANGED <<config, show_all, cst, gst, ccourses, gcourses, cdone, gdone,
                   progressVars, evaluated, shown, out, clock,
                   next_assignment_due_at, next_submission_due_at, locked_count,
                   locked_hidden, color_id, courses_color, result>>

\* run_todo, lines 317-323: a shown Canvas assignment is printed when it has
\* points and a submission record and is not hidden as locked
\* the lock test made before the tests of points and submission record
canvas_counted_locked_hoisted(cfg, a) == cfg.hide_locked /\ a.locked_for_user
canvas_counted_locked(cfg, a) ==
    IsSome(a.points_possible) /\ IsSome(a.submission)
    /\ cfg.hide_locked /\ a.locked_for_user
canvas_printed(cfg, a) ==
    IsSome(a.points_possible) /\ IsSome(a.submission)
    /\ ~(cfg.hide_locked /\ a.locked_for_user)

\* run_todo, lines 352-359 and 394-397: does the printed assignment set the
\* next-assignment marker, and the next-online-submission marker
sets_next_assignment(x, t) ==
    IF x.src = "Canvas"
    THEN Unwrap(x.a.due_at) > t /\ ~IsSome(Unwrap(x.a.submission).submitted_at)
    ELSE TRUE
sets_next_submission(x, t) ==
    IF x.src = "Canvas"
    THEN sets_next_assignment(x, t) /\ process_submission(x.a)
    ELSE TRUE

\* the loop body for an assignment that is skipped
SkipAssignment ==
    UNCHANGED <<out, next_assignment_due_at, next_submission_due_at,
                locked_count, locked_hidden, color_id, courses_color, pc, result>>

\* the loop body, lines 324-359 and 365-397: print the assignment
PrintAssignment(x) ==
    LET due == Unwrap(due_at(x))
        c == get_course_color(courses_color, color_id, x.course.id, x.course.name)
    IN  IF ~format_duration_full_ok(now, due)
        THEN /\ pc' = "panicked"
             /\ result' = Panicked
             /\ UNCHANGED <<out, next_assignment_due_at, next_submission_due_at,
                            locked_count, locked_hidden, color_id, courses_color>>
        ELSE /\ out' = Append(out, AssignmentLine(x, c.label))
             /\ courses_color' = c.memo
             /\ color_id' = c.color_id
             /\ next_assignment_due_at' =
                  IF sets_next_assignment(x, now) THEN Some(due)
                  ELSE next_assignment_due_at
             /\ next_submission_due_at' =
                  IF sets_next_submission(x, now) THEN Some(due)
                  ELSE next_submission_due_at
             /\ UNCHANGED <<locked_count, locked_hidden, pc, result>>

\* the loop body once the assignment is known to be shown
ShowAssignment(x) ==
    IF x.src = "Canvas" /\ canvas_counted_locked(config, x.a)
    THEN /\ locked_count' = locked_count + 1
         /\ locked_hidden' = Append(locked_hidden, x)
         /\ UNCHANGED <<out, next_assignment_due_at, next_submission_due_at,
                        color_id, courses_color, pc, result>>
    ELSE IF x.src = "Canvas" /\ ~canvas_printed(config, x.a)
    THEN SkipAssignment
    ELSE PrintAssignment(x)

\* a reading of Local::now() when the clock was last seen at t: not earlier,
\* and within MaxDrift of `now`; no reading leaves the clock as it was seen
ClockReadings(reads, t) == IF reads THEN t..(now + MaxDrift) ELSE {t}

\* run_todo, lines 314-402: one iteration of the loop
PrintStep ==
    /\ pc = "print" /\ all_assignments # <<>>
    /\ LET x == Head(all_assignments)
       IN  /\ all_assignments' = Tail(all_assignments)
           /\ IF ~IsSome(due_at(x))
              THEN SkipAssignment /\ UNCHANGED <<clock, evaluated, shown>>
              ELSE IF show_all
              THEN /\ ShowAssignment(x)
                   /\ shown' = shown \cup {x}
                   /\ UNCHANGED <<clock, evaluated>>
              ELSE \E t1 \in ClockReadings(reads_now_131(config, x), clock) :
                   \E t2 \in ClockReadings(reads_now_139(config, x, t1), t1) :
                      /\ clock' = t2
                      /\ evaluated' = evaluated \cup {x}
                      /\ IF should_show(config, x, t1, t2)
                         THEN ShowAssignment(x) /\ shown' = shown \cup {x}
                         ELSE SkipAssignment /\ UNCHANGED shown
    /\ UNCHANGED <<config, show_all, cst, gst, ccourses, gcourses, cdone, gdone,
                   progressVars, finished, now>>

\* run_todo, lines 404-431: the lines after the loop; format_duration panics
\* on a marker that is not later than now, after the lines before it
summary(locked, next_a, next_s, t) ==
    LET l1 == IF locked # 0 THEN <<LockedLine(locked)>> ELSE <<>>
        okA == IsSome(next_a) => format_duration_ok(t, Unwrap(next_a))
        l2 == IF IsSome(next_a) /\ okA THEN <<NextAssignmentLine(Unwrap(next_a))>>
              ELSE <<>>
        okS == IsSome(next_s) => format_duration_ok(t, Unwrap(next_s))
        l3 == IF okA /\ IsSome(next_s) /\ okS
              THEN <<NextSubmissionLine(Unwrap(next_s))>> ELSE <<>>
    IN  [lines |-> l1 \o l2 \o l3, ok |-> okA /\ okS]

Summary ==
    /\ pc = "print" /\ all_assignments = <<>>
    /\ LET s == summary(locked_count, next_assignment_due_at,
                        next_submission_due_at, now)
       IN  /\ out' = out \o s.lines
           /\ pc' = IF s.ok THEN "done" ELSE "panicked"
           /\ result' = IF s.ok THEN Returned(Ok(<<>>)) ELSE Panicked
    /\ UNCHANGED <<config, show_all, cst, gst, ccourses, gcourses, cdone, gdone,
                   progressVars, finished, all_assignments, evaluated, shown, clock,
                   now,
                   next_assignment_due_at, next_submission_due_at, locked_count,
                   locked_hidden, color_id, courses_color>>

-----------------------------------------------------------------------------
(* One call of fetch, GET by GET *)

FetchValues == { <<>>, <<Course(100, 2)>> }
FetchUrls == { CourseListUrl, AssignmentsUrl(100) }
Behaviours ==
    {TransportFail, StatusFail(401), StatusFail(500), ReadFail, Malformed}
        \cup {Reply(v) : v \in FetchValues}
Scripts == UNION { [1..n -> Behaviours] : n \in 1..MaxAttempts }

FetchIdle ==
    /\ f_pc = "idle" /\ f_url = CourseListUrl
    /\ f_script = <<>> /\ f_script0 = <<>>
    /\ f_resp = TransportFail /\ f_gets = 0 /\ f_decodes = 0
    /\ f_result = Running

\* the servers' behaviour toward the successive GETs of the call is f_script
FetchInit ==
    /\ f_pc = "send"
    /\ f_url \in FetchUrls
    /\ f_script \in Scripts /\ f_script0 = f_script
    /\ f_resp = TransportFail /\ f_gets = 0 /\ f_decodes = 0
    /\ f_result = Running

\* fetch, lines 46-55: CLIENT.get(..).send() is polled for the first time; the
\* GET goes out and fetch is suspended in .await until the server answers
FetchSend ==
    /\ f_pc = "send" /\ f_script # <<>>
    /\ f_gets' = f_gets + 1
    /\ f_pc' = "sent"
    /\ UNCHANGED <<f_url, f_script, f_script0, f_resp, f_decodes, f_result>>

\* fetch, lines 55-56: the answer to the GET is there and fetch is polled
\* again; a transport failure is returned as "Unable to fetch"
FetchResponse ==
    /\ f_pc = "sent"
    /\ f_resp' = Head(f_script)
    /\ f_script' = Tail(f_script)
    /\ IF f_resp'.send
       THEN f_pc' = "status" /\ UNCHANGED f_result
       ELSE f_pc' = "done" /\ f_result' = Returned(Err(ErrFetch(f_url)))
    /\ UNCHANGED <<f_url, f_script0, f_gets, f_decodes>>

\* fetch, lines 57-59: error_for_status
FetchStatus ==
    /\ f_pc = "status"
    /\ IF is_error_status(f_resp.status)
       THEN f_pc' = "done" /\ f_result' = Returned(Err(ErrStatus))
       ELSE f_pc' = "bytes" /\ UNCHANGED f_result
    /\ UNCHANGED <<f_url, f_script, f_script0, f_resp, f_gets, f_decodes>>

\* fetch, lines 60-62: bytes().await
FetchBytes ==
    /\ f_pc = "bytes"
    /\ IF f_resp.read
       THEN f_pc' = "decode" /\ UNCHANGED f_result
       ELSE f_pc' = "done" /\ f_result' = Returned(Err(ErrRead))
    /\ UNCHANGED <<f_url, f_script, f_script0, f_resp, f_gets, f_decodes>>

\* fetch, lines 45 and 63-64: decode_json, once
FetchDecode ==
    /\ f_pc = "decode"
    /\ f_decodes' = f_decodes + 1
    /\ f_pc' = "done"
    /\ f_result' = Returned(fetch(f_url, f_resp))
    /\ UNCHANGED <<f_url, f_script, f_script0, f_resp, f_gets>>

-----------------------------------------------------------------------------
(* One call of should_show *)

ShowConfigs ==
    [gradescope_cookie : {None},
     hide_overdue_after_days : {None, Some(0), Some(1)},
     hide_overdue_without_submission : BOOLEAN,
     exclude : {{}},
     include : SUBSET {ByAssignmentId(1)},
     hide_locked : {FALSE}]

Dues == {None} \cup {Some(t) : t \in 0..MaxTime}
Submissions ==
    {None} \cup {Some(Submission(at, n)) : at \in {None, Some(1)}, n \in {0, 2}}

ShowAssignments ==
    { Canvas(Course(100, 2),
             CanvasAssignment(id, due, Some(10), sub, peer, FALSE, types)) :
        id \in {1, 2}, due \in Dues, sub \in Submissions, peer \in BOOLEAN,
        types \in {<<"on_paper">>, <<"none", "online_upload">>} }
    \cup
    { Gradescope(Course(100, 3), GradescopeAssignment(due, submitted)) :
        due \in Dues, submitted \in BOOLEAN }

ShowIdle ==
    /\ s_pc = "idle"
    /\ s_config \in [gradescope_cookie : {None}, hide_overdue_after_days : {None},
                     hide_overdue_without_submission : {FALSE}, exclude : {{}},
                     include : {{}}, hide_locked : {FALSE}]
    /\ s_asg = Gradescope(Course(100, 3), GradescopeAssignment(None, FALSE))
    /\ s_t1 = StartTime /\ s_t2 = StartTime
    /\ s_out = FALSE

ShowInit ==
    /\ s_pc = "call"
    /\ s_config \in ShowConfigs
    /\ s_asg \in ShowAssignments
    /\ s_t1 \in StartTime..(StartTime + MaxDrift)
    /\ s_t2 \in s_t1..(StartTime + MaxDrift)
    /\ s_out = FALSE

\* should_show returns
ShouldShow ==
    /\ s_pc = "call"
    /\ s_out' = should_show(s_config, s_asg, s_t1, s_t2)
    /\ s_pc' = "done"
    /\ UNCHANGED <<s_config, s_asg, s_t1, s_t2>>

-----------------------------------------------------------------------------
(* Progress::wrap, statement by statement, for the wrap calls of one join *)

\* All wrap calls are futures of the one task that awaits the join: the task
\* polls one of them at a time, and a polled wrap runs until its wrapped
\* future is pending or it returns.

\* the positions at which a wrap calls self.messages.lock()
LockPositions == {"insert_lock", "read1_lock", "remove_lock", "read2_lock"}
\* the positions at which a wrap holds the guard
HeldPositions == {"insert", "read1", "remove", "read2"}
afterLock(p) ==
    CASE p = "insert_lock" -> "insert"
      [] p = "read1_lock" -> "read1"
      [] p = "remove_lock" -> "remove"
      [] p = "read2_lock" -> "read2"

\* a guard bound to a variable of wrap, alive until wrap returns
guard_bound_to_local(holder) == holder
\* the MutexGuard of `self.messages.lock().unwrap()` is a temporary: it is
\* dropped at the end of the statement that took it
guard_after_statement(holder) == None

WrapIdle ==
    /\ w_pc = <<>> /\ w_running = None /\ w_ready = {} /\ w_lock = None
    /\ w_messages = <<>> /\ w_nextSlot = 1 /\ w_slot = <<>> /\ w_local = <<>>
    /\ w_barLen = 0

\* Progress::new, and the wrap calls handed to the join
WrapInit ==
    /\ \E n \in 1..MaxWraps :
         /\ w_pc = [w \in 1..n |-> "new"]
         /\ w_slot = [w \in 1..n |-> None]
         /\ w_local = [w \in 1..n |-> {}]
    /\ w_running = None /\ w_ready = {} /\ w_lock = None
    /\ w_messages = <<>> /\ w_nextSlot = 1 /\ w_barLen = 0

\* the task polls wrap w: for the first time, or because its wrapped future
\* woke the task
Poll(w) ==
    /\ w_running = None
    /\ \/ w_pc[w] = "new" /\ w_pc' = [w_pc EXCEPT ![w] = "insert_lock"]
       \/ w_pc[w] = "awaiting" /\ w \in w_ready
          /\ w_pc' = [w_pc EXCEPT ![w] = "remove_lock"]
    /\ w_running' = Some(w)
    /\ UNCHANGED <<w_ready, w_lock, w_messages, w_nextSlot, w_slot, w_local, w_barLen>>

\* self.messages.lock().unwrap(), lines 31-33, 43 and 46: a std Mutex, the
\* caller goes on once no one holds it
LockMessages(w) ==
    /\ w_running = Some(w) /\ w_pc[w] \in LockPositions
    /\ w_lock = None
    /\ w_lock' = Some(w)
    /\ w_pc' = [w_pc EXCEPT ![w] = afterLock(w_pc[w])]
    /\ UNCHANGED <<w_running, w_ready, w_messages, w_nextSlot, w_slot, w_local, w_barLen>>

\* line 43: insert under the guard, to the end of the statement
Insert(w) ==
    /\ w_running = Some(w) /\ w_pc[w] = "insert"
    /\ w_messages' = arena_insert(w_messages, w_nextSlot, Label("wrap", w))
    /\ w_slot' = [w_slot EXCEPT ![w] = Some(w_nextSlot)]
    /\ w_nextSlot' = w_nextSlot + 1
    /\ w_lock' = guard_after_statement(w_lock)
    /\ w_pc' = [w_pc EXCEPT ![w] = "read1_lock"]
    /\ UNCHANGED <<w_running, w_ready, w_local, w_barLen>>

\* update, lines 30-37: collect the labels under the guard, to the end of
\* the statement
ReadAll(w) ==
    /\ w_running = Some(w) /\ w_pc[w] \in {"read1", "read2"}
    /\ w_local' = [w_local EXCEPT ![w] = DOMAIN w_messages]
    /\ w_lock' = guard_after_statement(w_lock)
    /\ w_pc' = [w_pc EXCEPT ![w] = IF w_pc[w] = "read1" THEN "set1" ELSE "set2"]
    /\ UNCHANGED <<w_running, w_ready, w_messages, w_nextSlot, w_slot, w_barLen>>

\* update, lines 38-39: set_message and set_length; after the second update
\* wrap returns (line 48)
SetBar(w) ==
    /\ w_running = Some(w) /\ w_pc[w] \in {"set1", "set2"}
    /\ w_barLen' = Cardinality(w_local[w])
    /\ IF w_pc[w] = "set1"
       THEN w_pc' = [w_pc EXCEPT ![w] = "await"] /\ UNCHANGED w_running
       ELSE w_pc' = [w_pc EXCEPT ![w] = "done"] /\ w_running' = None
    /\ UNCHANGED <<w_ready, w_lock, w_messages, w_nextSlot, w_slot, w_local>>

\* line 45, f.await: the wrapped future is polled; pending suspends the wrap
\* and the task polls another or sleeps
AwaitFuture(w) ==
    /\ w_running = Some(w) /\ w_pc[w] = "await"
    /\ IF w \in w_ready
       THEN w_pc' = [w_pc EXCEPT ![w] = "remove_lock"] /\ UNCHANGED w_running
       ELSE w_pc' = [w_pc EXCEPT ![w] = "awaiting"] /\ w_running' = None
    /\ UNCHANGED <<w_ready, w_lock, w_messages, w_nextSlot, w_slot, w_local, w_barLen>>

\* the output of the wrapped future becomes available
FutureReady(w) ==
    /\ w_pc[w] # "done" /\ w \notin w_ready
    /\ w_ready' = w_ready \cup {w}
    /\ UNCHANGED <<w_pc, w_running, w_lock, w_messages, w_nextSlot, w_slot,
                   w_local, w_barLen>>

\* line 46: remove under the guard, to the end of the statement
Remove(w) ==
    /\ w_running = Some(w) /\ w_pc[w] = "remove"
    /\ w_messages' = arena_remove(w_messages, Unwrap(w_slot[w]))
    /\ w_lock' = guard_after_statement(w_lock)
    /\ w_pc' = [w_pc EXCEPT ![w] = "read2_lock"]
    /\ UNCHANGED <<w_running, w_ready, w_nextSlot, w_slot, w_local, w_barLen>>

-----------------------------------------------------------------------------
(* Specifications *)

RunIdle ==
    /\ RunInit
    /\ config.gradescope_cookie = None /\ config.hide_overdue_after_days = None
    /\ ~config.hide_overdue_without_submission /\ ~config.hide_locked
    /\ config.exclude = {} /\ config.include = {}
    /\ ~show_all

\* the todo command
Init == RunInit /\ FetchIdle /\ ShowIdle /\ WrapIdle
Next ==
    \/ StartCanvas /\ UNCHANGED <<fetchVars, showVars, wrapVars>>
    \/ StartGradescope /\ UNCHANGED <<fetchVars, showVars, wrapVars>>
    \/ CanvasListDone /\ UNCHANGED <<fetchVars, showVars, wrapVars>>
    \/ CanvasBegin /\ UNCHANGED <<fetchVars, showVars, wrapVars>>
    \/ CanvasCourseDone /\ UNCHANGED <<fetchVars, showVars, wrapVars>>
    \/ GradescopeListDone /\ UNCHANGED <<fetchVars, showVars, wrapVars>>
    \/ GradescopeBegin /\ UNCHANGED <<fetchVars, showVars, wrapVars>>
    \/ GradescopeCourseDone /\ UNCHANGED <<fetchVars, showVars, wrapVars>>
    \/ Merge /\ UNCHANGED <<fetchVars, showVars, wrapVars>>
    \/ PrintStep /\ UNCHANGED <<fetchVars, showVars, wrapVars>>
    \/ Summary /\ UNCHANGED <<fetchVars, showVars, wrapVars>>
Spec == Init /\ [][Next]_vars

\* one call of fetch
InitFetch == RunIdle /\ FetchInit /\ ShowIdle /\ WrapIdle
NextFetch ==
    \/ FetchSend /\ UNCHANGED <<runVars, showVars, wrapVars>>
    \/ FetchResponse /\ UNCHANGED <<runVars, showVars, wrapVars>>
    \/ FetchStatus /\ UNCHANGED <<runVars, showVars, wrapVars>>
    \/ FetchBytes /\ UNCHANGED <<runVars, showVars, wrapVars>>
    \/ FetchDecode /\ UNCHANGED <<runVars, showVars, wrapVars>>
SpecFetch == InitFetch /\ [][NextFetch]_vars

\* one call of should_show
InitShow == RunIdle /\ FetchIdle /\ ShowInit /\ WrapIdle
NextShow == ShouldShow /\ UNCHANGED <<runVars, fetchVars, wrapVars>>
SpecShow == InitShow /\ [][NextShow]_vars

\* the wrap calls of one join, polled by the one task
InitWrap == RunIdle /\ FetchIdle /\ ShowIdle /\ WrapInit
NextWrap ==
    \/ \E w \in DOMAIN w_pc : Poll(w) /\ UNCHANGED <<runVars, fetchVars, showVars>>
    \/ \E w \in DOMAIN w_pc : LockMessages(w) /\ UNCHANGED <<runVars, fetchVars, showVars>>
    \/ \E w \in DOMAIN w_pc : Insert(w) /\ UNCHANGED <<runVars, fetchVars, showVars>>
    \/ \E w \in DOMAIN w_pc : ReadAll(w) /\ UNCHANGED <<runVars, fetchVars, showVars>>
    \/ \E w \in DOMAIN w_pc : SetBar(w) /\ UNCHANGED <<runVars, fetchVars, showVars>>
    \/ \E w \in DOMAIN w_pc : AwaitFuture(w) /\ UNCHANGED <<runVars, fetchVars, showVars>>
    \/ \E w \in DOMAIN w_pc : FutureReady(w) /\ UNCHANGED <<runVars, fetchVars, showVars>>
    \/ \E w \in DOMAIN w_pc : Remove(w) /\ UNCHANGED <<runVars, fetchVars, showVars>>
SpecWrap == InitWrap /\ [][NextWrap]_vars

-----------------------------------------------------------------------------
(* Properties *)

Range(f) == {f[i] : i \in DOMAIN f}
IsAssignmentLine(l) == l.kind = "assignment"
\* the assignments printed so far, in the order printed
Printed == LET p == SelectSeq(out, IsAssignmentLine) IN [i \in 1..Len(p) |-> p[i].asg]
\* every assignment fetched by a per-course fetch of `src` that has returned
Fetched(src) ==
    LET courses == IF src = "Canvas" THEN ccourses ELSE gcourses
        lists == IF src = "Canvas" THEN cdone ELSE gdone
    IN  UNION { {[src |-> src, course |-> courses[i], a |-> Unwrap(lists[i])[k]]
                    : k \in 1..Len(Unwrap(lists[i]))}
                : i \in {j \in 1..Len(lists) : IsSome(lists[j])} }
\* the assignments in the candidate list or past it: still in the list,
\* handed to should_show, counted as locked, or printed
Candidates ==
    Range(all_assignments) \cup evaluated \cup Range(locked_hidden) \cup Range(Printed)
Terminal == pc \in {"done", "failed", "panicked"}
\* the wrap calls that have begun and whose entry has not been removed by them
InFlight == {w \in DOMAIN wraps : wraps[w].state # "done"}
FailedWraps == {w \in DOMAIN wraps : IsSome(wraps[w].err)}

\* C1: the assignments run_todo prints are in non-increasing order of due
\* timestamp, and every printed assignment has a due timestamp.
C1_PrintedOrder ==
    \A i \in 1..Len(Printed) :
        /\ IsSome(due_at(Printed[i]))
        /\ i > 1 => Unwrap(due_at(Printed[i - 1])) >= Unwrap(due_at(Printed[i]))
\* three assignments printed with strictly decreasing first and last due, from
\* a run that fetched an assignment without due timestamp and fetched some
\* course's assignments in increasing order of due
C1_Witness ==
    /\ pc = "done" /\ Len(Printed) >= 3
    /\ Unwrap(due_at(Printed[1])) > Unwrap(due_at(Printed[Len(Printed)]))
    /\ \E x \in Fetched("Canvas") \cup Fetched("Gradescope") : ~IsSome(due_at(x))
    /\ \E i \in 1..Len(cdone) :
         LET l == Unwrap(cdone[i])
         IN  Len(l) = 2 /\ IsSome(l[1].due_at) /\ IsSome(l[2].due_at)
             /\ Unwrap(l[1].due_at) < Unwrap(l[2].due_at)

\* C2: the length the bar shows equals the number of wrap calls that have
\* inserted their entry and not removed it, and when every wrap call of the
\* run has completed the registry is empty.
C2_InFlightCount ==
    /\ barLen = Cardinality(InFlight)
    /\ (\A w \in DOMAIN wraps : wraps[w].state = "done") => DOMAIN messages = {}
\* three wraps in flight after another one has completed
C2_Witness ==
    /\ barLen = 3
    /\ \E w \in DOMAIN wraps : wraps[w].state = "done"
    /\ Cardinality({w \in DOMAIN wraps : wraps[w].state = "waiting"}) = 3

\* C3: no entry stays in the registry once its wrap call is no longer
\* running, whether the call returned or was abandoned by the join.
C3_ReleasedOnEveryExit ==
    \A w \in DOMAIN wraps :
        wraps[w].state \in {"done", "dropped"} => wraps[w].slot \notin DOMAIN messages

\* C4: a run that has ended has called Progress::finish exactly once, and
\* finish is called only when every wrap call has completed and the registry
\* is empty.
C4_FinishExactlyOnce ==
    /\ Terminal => finished = 1
    /\ finished >= 1 =>
         /\ \A w \in DOMAIN wraps : wraps[w].state = "done"
         /\ DOMAIN messages = {}

\* C5: a fetch whose first two GETs fail at transport level and whose third
\* is answered issues three GETs and returns the decoded value; a fetch all
\* of whose GETs fail at transport level or by status has issued them all
\* when it returns.
C5_RetryPolicy ==
    f_pc = "done" =>
        /\ (/\ Len(f_script0) = 3
            /\ ~f_script0[1].send /\ ~f_script0[2].send
            /\ fetch(f_url, f_script0[3]).ok)
           => /\ f_gets = 3
              /\ f_result = Returned(fetch(f_url, f_script0[3]))
        /\ (\A i \in 1..Len(f_script0) :
               ~f_script0[i].send \/ is_error_status(f_script0[i].status))
           => f_gets = Len(f_script0)

\* the bytes of the first GET's answer were received
BytesReceived ==
    /\ f_script0[1].send /\ ~is_error_status(f_script0[1].status)
    /\ f_script0[1].read

\* C6: a fetch that received the bytes has decoded once and issued one GET;
\* it returns the error tagged "Unable to parse" with the path exactly when
\* the bytes did not decode, so that error is told apart from the transport,
\* status and read errors.
C6_DecodeOnce ==
    f_pc = "done" =>
        /\ BytesReceived => f_decodes = 1 /\ f_gets = 1
        /\ ~BytesReceived => f_decodes = 0
        /\ (BytesReceived /\ ~f_script0[1].body.valid)
           <=> f_result = Returned(Err(ErrParse(f_url)))
        /\ (BytesReceived /\ ~f_script0[1].body.valid)
           <=> (~f_result.r.ok /\ f_result.r.err.msg = "Unable to parse")
\* the bytes did not decode and the server would have answered the next GET
C6_Witness ==
    /\ f_pc = "done" /\ f_decodes = 1 /\ f_gets = 1
    /\ f_result = Returned(Err(ErrParse(f_url)))
    /\ f_script # <<>> /\ fetch(f_url, Head(f_script)).ok

\* C7: when a fetch of the run has failed, run_todo has returned that
\* failure and nothing has been printed.
C7_NoPartialOutput ==
    FailedWraps # {} =>
        /\ pc = "failed"
        /\ \A w \in FailedWraps : result = Returned(Err(Unwrap(wraps[w].err)))
        /\ out = <<>>
\* a per-course fetch failed after another course's assignments, with due
\* timestamps, had arrived and while a third fetch was still awaited
C7_Witness ==
    /\ pc = "failed" /\ out = <<>>
    /\ \E w \in FailedWraps : w[2] > 0
    /\ \E x \in Fetched("Canvas") \cup Fetched("Gradescope") : IsSome(due_at(x))
    /\ \E w \in DOMAIN wraps : wraps[w].state = "dropped"

\* C8: should_show returns true for an assignment whose id is in the
\* inclusion list.
C8_InclusionShows ==
    (s_pc = "done" /\ IsSome(assignment_id(s_asg))
     /\ ByAssignmentId(Unwrap(assignment_id(s_asg))) \in s_config.include)
        => s_out
\* an included assignment shown although it is overdue beyond the threshold
\* and its submission is final
C8_Witness ==
    /\ s_pc = "done" /\ s_out
    /\ included(s_config, s_asg)
    /\ IsSome(due_at(s_asg))
    /\ overdue_hidden(s_config, Unwrap(due_at(s_asg)), s_t1)
    /\ ~submission_rule(s_asg)

\* C9: no assignment of a course that a by-course exclusion names is in the
\* candidate list, handed to should_show, counted or printed.
C9_ExcludedCoursesAbsent ==
    \A x \in Candidates : ByClassId(x.course.id) \notin config.exclude

\* C10: no assignment that a by-assignment-id exclusion names is in the
\* candidate list, handed to should_show, counted or printed.
C10_ExcludedAssignmentsAbsent ==
    \A x \in Candidates :
        ~(IsSome(assignment_id(x))
          /\ ByAssignmentId(Unwrap(assignment_id(x))) \in config.exclude)
\* a run with show_all that fetched an assignment, with a due timestamp,
\* named by both the exclusion and the inclusion list, and printed others
C10_Witness ==
    /\ pc = "done" /\ show_all /\ Printed # <<>>
    /\ config.include # {}
    /\ \E x \in Fetched("Canvas") :
         /\ IsSome(due_at(x)) /\ included(config, x)
         /\ ByAssignmentId(x.a.id) \in config.exclude

\* the list the print pass iterates over, once both loaders have returned
CandidateList ==
    IF pc \in {"print", "done", "panicked"}
    THEN merged(config,
                gcourses, [i \in 1..Len(gcourses) |-> Unwrap(gdone[i])],
                ccourses, [i \in 1..Len(ccourses) |-> Unwrap(cdone[i])])
    ELSE <<>>
\* a candidate with a due timestamp that is flagged locked for the user
IsLockedCandidate(x) ==
    x.src = "Canvas" /\ IsSome(due_at(x)) /\ x.a.locked_for_user
LockedCandidates == {i \in DOMAIN CandidateList : IsLockedCandidate(CandidateList[i])}
\* the locked candidates that passed the test of line 316 and carry points
\* and a submission record
LockedDisplayable ==
    {i \in LockedCandidates :
        /\ CandidateList[i] \in shown
        /\ IsSome(CandidateList[i].a.points_possible)
        /\ IsSome(CandidateList[i].a.submission)}
IsLockedLine(l) == l.kind = "locked"
LockedLines == SelectSeq(out, IsLockedLine)
\* the trailing line reports n, and is absent exactly when n is 0
ReportsLocked(n) ==
    IF n = 0 THEN LockedLines = <<>> ELSE LockedLines = <<LockedLine(n)>>

\* C11 as stated: with hide_locked, no locked candidate with a due timestamp
\* is printed, and the trailing line reports the number of locked candidates
\* with a due timestamp, being absent exactly when that number is 0.
C11_LockedCountAllCandidates ==
    (pc = "done" /\ config.hide_locked) =>
        /\ \A i \in LockedCandidates : CandidateList[i] \notin Range(Printed)
        /\ ReportsLocked(Cardinality(LockedCandidates))
\* C11 amended: with hide_locked, no locked candidate with a due timestamp is
\* printed, and the trailing line reports the number of those that passed
\* show_all or should_show and carry points and a submission record, being
\* absent exactly when that number is 0.
C11_LockedCount ==
    (pc = "done" /\ config.hide_locked) =>
        /\ \A i \in LockedCandidates : CandidateList[i] \notin Range(Printed)
        /\ locked_count = Cardinality(LockedDisplayable)
        /\ ReportsLocked(locked_count)
\* a run without show_all that reported a locked assignment, printed
\* others, and left another locked candidate uncounted
C11_Witness ==
    /\ pc = "done" /\ config.hide_locked /\ ~show_all
    /\ LockedLines = <<LockedLine(1)>>
    /\ Printed # <<>>
    /\ Cardinality(LockedCandidates) = 2

\* the loop of the print pass has ended and the trailing lines are not yet out
PrintPassEnded == pc = "print" /\ all_assignments = <<>>
\* a printed assignment that still requires action: not yet submitted
RequiresAction(x) ==
    IF x.src = "Canvas" THEN ~IsSome(Unwrap(x.a.submission).submitted_at)
    ELSE ~x.a.submitted
\* a printed assignment that is handed in online
RequiresOnlineSubmission(x) ==
    IF x.src = "Canvas" THEN process_submission(x.a) ELSE TRUE
\* the due timestamps of the printed assignments due after now that still
\* require action, and of those among them handed in online
UpcomingDues ==
    {Unwrap(due_at(x)) : x \in {y \in Range(Printed) :
        Unwrap(due_at(y)) > now /\ RequiresAction(y)}}
UpcomingOnlineDues ==
    {Unwrap(due_at(x)) : x \in {y \in Range(Printed) :
        Unwrap(due_at(y)) > now /\ RequiresAction(y) /\ RequiresOnlineSubmission(y)}}
Earliest(S) == IF S = {} THEN None ELSE Some(CHOOSE t \in S : \A u \in S : t <= u)

\* C12: when the loop of the print pass has ended, the next-assignment marker
\* is the earliest due timestamp of the printed assignments that are due after
\* now and not yet submitted, absent when there is none, and the
\* next-online-submission marker is the earliest among those handed in online.
C12_NextMarkersEarliest ==
    PrintPassEnded =>
        /\ next_assignment_due_at = Earliest(UpcomingDues)
        /\ next_submission_due_at = Earliest(UpcomingOnlineDues)

\* the call of should_show that has returned was on a submitted Gradescope
\* assignment
SubmittedGradescopeCall ==
    s_pc = "done" /\ s_asg.src = "Gradescope" /\ s_asg.a.submitted
\* the overdue-threshold rule hits the assignment of the call
HitByOverdueThreshold ==
    IsSome(due_at(s_asg)) /\ overdue_hidden(s_config, Unwrap(due_at(s_asg)), s_t1)

\* C13 as stated: for a submitted Gradescope assignment should_show returns
\* false when hide_overdue_without_submission is configured, and returns true
\* when it is not configured and neither the inclusion nor the
\* overdue-threshold rule hits the assignment.
C13_SubmittedHiddenOnlyUnderFlag ==
    SubmittedGradescopeCall =>
        IF s_config.hide_overdue_without_submission
        THEN ~s_out
        ELSE (~included(s_config, s_asg) /\ ~HitByOverdueThreshold) => s_out
\* C13 amended: for a submitted Gradescope assignment that has a due
\* timestamp should_show returns false whether or not
\* hide_overdue_without_submission is configured; for one without a due
\* timestamp it returns true.
C13_SubmittedHiddenWhenDue ==
    SubmittedGradescopeCall => (s_out <=> ~IsSome(due_at(s_asg)))
\* a submitted Gradescope assignment, due later, suppressed with the flag not
\* configured and no overdue threshold
C13_Witness ==
    /\ SubmittedGradescopeCall /\ ~s_out
    /\ ~s_config.hide_overdue_without_submission
    /\ s_config.hide_overdue_after_days = None
    /\ IsSome(due_at(s_asg)) /\ Unwrap(due_at(s_asg)) > s_t2

\* the call of should_show that has returned was on a Canvas assignment that
\* the inclusion list does not name and no overdue rule suppresses
CanvasCallPastOverdueRules ==
    /\ s_pc = "done" /\ s_asg.src = "Canvas"
    /\ ByAssignmentId(s_asg.a.id) \notin s_config.include
    /\ ~HitByOverdueThreshold
    /\ ~(/\ IsSome(s_asg.a.due_at)
          /\ s_config.hide_overdue_without_submission
          /\ \A i \in 1..Len(s_asg.a.submission_types) :
                s_asg.a.submission_types[i] \in {"none", "on_paper"}
          /\ s_t2 > Unwrap(s_asg.a.due_at))
\* the assignment of the call has a submission record with a timestamp
SubmissionFinal ==
    IsSome(s_asg.a.submission) /\ IsSome(Unwrap(s_asg.a.submission).submitted_at)
\* the assignment of the call asks for peer reviews and has fewer than 2
\* entries
PeerReviewOpen ==
    s_asg.a.peer_reviews /\ Unwrap(s_asg.a.submission).discussion_entries < 2

\* C14: for a Canvas assignment that the inclusion list does not name and the
\* overdue rules do not suppress, should_show returns false exactly when the
\* submission record has a timestamp and the peer review is not open.
C14_FinalSubmissionHidden ==
    CanvasCallPastOverdueRules =>
        (~s_out <=> (SubmissionFinal /\ ~PeerReviewOpen))
\* a submitted assignment shown because its peer review is open, on a call
\* that read the clock for both overdue rules
C14_Witness ==
    /\ CanvasCallPastOverdueRules /\ s_out
    /\ SubmissionFinal /\ PeerReviewOpen
    /\ IsSome(s_asg.a.due_at)
    /\ IsSome(s_config.hide_overdue_after_days)
    /\ s_config.hide_overdue_without_submission

\* the wrap calls suspended on their wrapped future
Suspended == {w \in DOMAIN w_pc : w_pc[w] = "awaiting"}

\* C15: the registry lock is held only by the wrap the task is running,
\* inside one insert, remove or read-all statement; no wrap suspended on its
\* future holds it, it is free whenever the task has suspended a wrap and is
\* not running another, and a wrap that asks for it never finds it held.
C15_LockNotHeldAcrossAwait ==
    /\ \A w \in DOMAIN w_pc :
         w_lock = Some(w) => (w_running = Some(w) /\ w_pc[w] \in HeldPositions)
    /\ \A w \in Suspended : w_lock # Some(w)
    /\ (Suspended # {} /\ w_running = None) => w_lock = None
    /\ \A w \in DOMAIN w_pc :
         (w_running = Some(w) /\ w_pc[w] \in LockPositions) => w_lock = None
\* a wrap takes the lock for its remove while another is suspended on its
\* future and a third has returned
C15_Witness ==
    /\ \E w \in DOMAIN w_pc : w_lock = Some(w) /\ w_pc[w] = "remove"
    /\ Suspended # {}
    /\ \E w \in DOMAIN w_pc : w_pc[w] = "done"

\* C16: a timestamp stored in the next-assignment or the
\* next-online-submission marker is later than now, and the trailing lines
\* are printed without format_duration's assertion failing.
C16_MarkersAfterNow ==
    /\ IsSome(next_assignment_due_at) => Unwrap(next_assignment_due_at) > now
    /\ IsSome(next_submission_due_at) => Unwrap(next_submission_due_at) > now
    /\ (PrintPassEnded =>
          summary(locked_count, next_assignment_due_at,
                  next_submission_due_at, now).ok)

\* the header lines printed so far, in order
AssignmentLines == SelectSeq(out, IsAssignmentLine)
\* a course as the source knows it: ids are scoped by the source
CourseOf(l) == [src |-> l.asg.src, id |-> l.asg.course.id]
\* the line at which the course of line i was first printed
FirstLineOf(i) ==
    CHOOSE j \in 1..i :
        /\ CourseOf(AssignmentLines[j]) = CourseOf(AssignmentLines[i])
        /\ \A k \in 1..(j - 1) :
             CourseOf(AssignmentLines[k]) # CourseOf(AssignmentLines[i])
\* the number of courses printed before the course of line i was
EncounterRank(i) ==
    Cardinality({CourseOf(AssignmentLines[k]) : k \in 1..(FirstLineOf(i) - 1)})

\* C17: every header line carries the name of its assignment's own course
\* and the palette color of that course's rank in first-encounter order,
\* courses being told apart by source and id; so a course has one color in a
\* run.
C17_CourseLabelsPerSource ==
    \A i \in 1..Len(AssignmentLines) :
        /\ AssignmentLines[i].label.name = AssignmentLines[i].asg.course.name
        /\ AssignmentLines[i].label.color = EncounterRank(i) % PaletteSize

====
